---- MODULE Spec2Model ----
(***************************************************************************)
(* The synchronized cache and real-time notification layer of chatbot_2:   *)
(* SequenceCache (src/cache.py) and WebSocketServer (src/websocket_app.py).*)
(***************************************************************************)
EXTENDS Integers, Sequences, FiniteSets, TLC

\* ------------------------------------------------------------------ bounds
NumIds == 2
NumConns == 2
MaxTokens == 2
MaxLogins == 1
MaxCalls == 2
MaxTicks == 2

\* ------------------------------------------------------- program constants
MAX_ATTEMPTS == 5
TokenTTLHours == 24
RNACENTRAL_BASE_URL == "https://rnacentral.org/rna/"
SECRET_KEY == "SECRET_KEY"

\* One clock step is a token lifetime: a token issued at 0 is read at its
\* expiration and past it.
TickHours == TokenTTLHours

\* Python's None and SQL's NULL; a string value that may be None is Str(s).
None == [null |-> TRUE]
Str(s) == [str |-> s]
Ids == 1..NumIds
Conns == 1..NumConns

\* ------------------------------------------------------ the mapping file
\* The lines of the GtRNAdb mapping file, as (rnacentral id, location,
\* friendly name); the first id has three lines, two of them with the same
\* coordinate, every other id none.
MappingFile ==
    << [rid |-> 1, loc |-> "HE616747.1:617025-617106", name |-> "tRNA-Leu-GAG-1-1"],
       [rid |-> 1, loc |-> "HE616747.2:617025-617106", name |-> "tRNA-Leu-GAG-1-1"],
       [rid |-> 1, loc |-> "HE616747.2:617025-617106", name |-> "tRNA-Leu-GAG-1-1"] >>

\* location_map[rnacentral_id].insert(0, location) in place of append
RECURSIVE LocationsOf_newest_first(_, _)
LocationsOf_newest_first(file, id) ==
    IF file = <<>> THEN <<>>
    ELSE LET rest == LocationsOf_newest_first(Tail(file), id)
         IN  IF Head(file).rid = id THEN rest \o <<Head(file).loc>> ELSE rest

\* location_map[rnacentral_id].append(location), l. 61-63, line by line
RECURSIVE LocationsOf(_, _)
LocationsOf(file, id) ==
    IF file = <<>> THEN <<>>
    ELSE LET rest == LocationsOf(Tail(file), id)
         IN  IF Head(file).rid = id THEN <<Head(file).loc>> \o rest ELSE rest

RECURSIVE FriendlyNameOf(_, _)
FriendlyNameOf(file, id) ==
    IF file = <<>> THEN None
    ELSE LET later == FriendlyNameOf(Tail(file), id)
         IN  IF later # None THEN later
             ELSE IF Head(file).rid = id THEN Str(Head(file).name) ELSE None

\* self._id_mapping.get(sequence_id, ([], None))
IdMapping(id) ==
    [locations |-> LocationsOf(MappingFile, id),
     friendly_name |-> FriendlyNameOf(MappingFile, id)]

\* ------------------------------------------------------------- payloads
\* A payload document: its base content and the two derived keys the
\* structure tool merges into it.  "NotJSON" stands for a document that
\* json.dumps rejects (it holds a set, a bytes object, ...).
Payload(b) == [base |-> b, secondary_structure |-> None, trnascan_sequence |-> None]
Payloads == {Payload("P1"), Payload("P2"), Payload("NotJSON")}
Serializable(data) == data.base # "NotJSON"

\* A tool output: a text of lines (prefix, body), or an object that is no
\* string.
Line(p, b) == [prefix |-> p, body |-> b]
Text(ls) == [kind |-> "text", lines |-> ls]
NotAString == [kind |-> "object", lines |-> <<>>]
TrnascanGood == Text(<<Line("Seq: ", "GCAU"), Line("Str: ", ">>..<<")>>)
TrnascanNoStr == Text(<<Line("Seq: ", "GCAU"), Line("", "junk")>>)
SprinzlText == Text(<<Line("", "1 2 3")>>)
BlocksText == Text(<<Line("", "blocks")>>)
ToolInputs(tool) ==
    CASE tool = "trnascan_se_ss" -> {TrnascanGood, TrnascanNoStr, NotAString}
      [] tool = "sprinzl_pos" -> {SprinzlText, NotAString}
      [] tool = "blocks_file" -> {BlocksText, NotAString}
      [] OTHER -> {BlocksText}

allowed_tools == {"trnascan_se_ss", "sprinzl_pos", "blocks_file"}
ToolNames == allowed_tools \cup {"bogus"}

VARIABLES
    memory_cache,                \* SequenceCache._memory_cache
    db,                          \* the rows of table sequences, by sequence_id
    db_update_callback,          \* SequenceCache.db_update_callback is set
    loop,                        \* SequenceCache.loop is set
    tasks,                       \* handle_db_update coroutines on the event loop
    clients,                     \* WebSocketServer.clients
    authenticated_clients,       \* WebSocketServer.authenticated_clients
    active_tokens,               \* WebSocketServer.active_tokens
    PASSWORD,                    \* WebSocketServer.PASSWORD (None when unset)
    incorrect_password_attempts, \* AuthenticationError.incorrect_password_attempts
    terminated,                  \* the process received its own SIGTERM
    now,                         \* datetime.now(), in hours
    conn,                        \* each connection: new, open, closed_buf, closed, done
    pc,                          \* each connection handler's position
    wire,                        \* history: the last send, its message and whom it reached
    callbackFailed,              \* history: callback_done saw a notification raise
    issued,                      \* history: every token generate_token returned, with its time
    lastCall,                    \* history: the last cache call and its outcome
    lastAuth,                    \* history: the last authenticate call and its outcome
    calls,                       \* number of cache calls made
    threads,                     \* cache calls in progress on worker threads
    view                         \* history: the records each connection has been sent

cacheVars == <<memory_cache, db, db_update_callback, loop, tasks, lastCall, calls,
               threads>>
serverVars == <<clients, authenticated_clients, active_tokens, PASSWORD,
                incorrect_password_attempts, terminated, issued, lastAuth>>
connVars == <<conn, pc, wire, callbackFailed, view>>
vars == <<cacheVars, serverVars, connVars, now>>

\* ---------------------------------------------------------- serialization
\* json.dumps / json.loads: a column holds the serialized text of a value.
JsonDumps(x) == [json |-> x]
JsonLoads(s) == s.json

\* ------------------------------------------------------ SequenceCache: rows
\* INSERT OR REPLACE INTO sequences (sequence_id, sequence_data, num_locations,
\* locations, friendly_name, rnacentral_link): the row that replaces any
\* earlier row of the id; the columns not named take their defaults.
\* len(locations), l. 120; the first counts the distinct coordinates instead
num_locations_distinct(locations) ==
    Cardinality({locations[i] : i \in DOMAIN locations})
num_locations_of(locations) == Len(locations)

InsertedRow(id, data, t) ==
    [sequence_data |-> JsonDumps(data),
     num_locations |-> num_locations_of(IdMapping(id).locations),
     locations |-> JsonDumps(IdMapping(id).locations),
     friendly_name |-> IdMapping(id).friendly_name,
     rnacentral_link |-> <<RNACENTRAL_BASE_URL, id>>,
     trnascan_se_ss |-> None,
     sprinzl_pos |-> None,
     blocks_file |-> None,
     created_at |-> t]

\* f with f[k] set to v, k added to its domain if new.
Put(f, k, v) == [x \in (DOMAIN f) \cup {k} |-> IF x = k THEN v ELSE f[x]]
Empty == <<>>
RemoveAt(q, i) == [j \in 1..(Len(q) - 1) |-> IF j < i THEN q[j] ELSE q[j + 1]]

\* INSERT OR REPLACE, l. 113: the row takes the place of any row of the id.
upsert_accumulates(table, id, row) ==
    IF id \in DOMAIN table
    THEN Put(table, id, [row EXCEPT !.num_locations = @ + table[id].num_locations])
    ELSE Put(table, id, row)
upsert(table, id, row) == Put(table, id, row)

\* cursor.rowcount of UPDATE ... WHERE sequence_id = ?, l. 273, 282, 290
rowcount_one(table, id) == 1
rowcount(table, id) == IF id \in DOMAIN table THEN 1 ELSE 0

\* DELETE FROM sequences and its commit, l. 374-375
delete_none(table) == table
delete_all(table) == Empty

\* The dict get_by_rnacentral_id / send_db_state build from a row.
RowView(row) ==
    [sequence_data |-> JsonLoads(row.sequence_data),
     num_locations |-> row.num_locations,
     locations |-> IF row.locations # None THEN JsonLoads(row.locations) ELSE <<>>,
     friendly_name |-> row.friendly_name,
     rnacentral_link |-> row.rnacentral_link,
     tool_data |->
        [trnascan_se_ss |-> IF row.trnascan_se_ss # None
                            THEN JsonLoads(row.trnascan_se_ss) ELSE None,
         sprinzl_pos |-> IF row.sprinzl_pos # None
                         THEN JsonLoads(row.sprinzl_pos) ELSE None,
         blocks_file |-> IF row.blocks_file # None THEN row.blocks_file ELSE None]]

\* get_by_rnacentral_id: <<the dict>>, or <<>> for None.
get_by_rnacentral_id(table, id) ==
    IF id \in DOMAIN table THEN <<RowView(table[id])>> ELSE <<>>

\* get_cache_size
get_cache_size(mem, table) ==
    [memory_entries |-> Cardinality(DOMAIN mem),
     persistent_entries |-> Cardinality(DOMAIN table)]

\* _parse_trnascan_output: the last "Seq: " line and the last "Str: " or ">>"
\* line; None unless both were found, or when the output is no string.
RECURSIVE ParseLines(_, _)
ParseLines(lines, result) ==
    IF lines = <<>> THEN result
    ELSE LET l == Head(lines)
             r == IF l.prefix = "Seq: "
                  THEN [result EXCEPT !.trnascan_sequence = Str(<<l.body>>)]
                  ELSE IF l.prefix = "Str: "
                  THEN [result EXCEPT !.secondary_structure = Str(<<l.body>>)]
                  ELSE IF l.prefix = ">>"
                  THEN [result EXCEPT !.secondary_structure = Str(<<l.prefix, l.body>>)]
                  ELSE result
         IN  ParseLines(Tail(lines), r)

parse_trnascan_output_lenient(data) ==
    IF data.kind # "text" THEN <<>>
    ELSE LET r == ParseLines(data.lines,
                             [trnascan_sequence |-> None, secondary_structure |-> None])
         IN  IF r.trnascan_sequence # None \/ r.secondary_structure # None
             THEN <<r>> ELSE <<>>
parse_trnascan_output(data) ==
    IF data.kind # "text" THEN <<>>
    ELSE LET r == ParseLines(data.lines,
                             [trnascan_sequence |-> None, secondary_structure |-> None])
         IN  IF r.trnascan_sequence # None /\ r.secondary_structure # None
             THEN <<r>> ELSE <<>>

\* _parse_sprinzl_output: the text with its line breaks removed.
RECURSIVE JoinLines(_)
JoinLines(lines) ==
    IF lines = <<>> THEN <<>> ELSE <<Head(lines).prefix, Head(lines).body>> \o JoinLines(Tail(lines))
parse_sprinzl_output(data) == [positions |-> JoinLines(data.lines)]

\* --------------------------------------------------- SequenceCache: calls
\* A notification handed to the event loop: handle_db_update(id, 'update'),
\* not yet started ("scheduled") or holding the dict it read ("fetched").
UpdateTask(id) == [kind |-> "update", id |-> id, stage |-> "scheduled", data |-> <<>>]

\* add_sequence, l. 110-128: the callback is scheduled when the INSERT has
\* committed (an exception of the write leaves the method before l. 128) and
\* both the callback and the loop are set.
add_sequence_notifies_always(writeOk, cb, lp) == cb /\ lp
add_sequence_notifies(writeOk, cb, lp) == writeOk /\ cb /\ lp

\* update_tool_data, l. 295
update_tool_data_notifies_never(success, cb, lp) == FALSE
update_tool_data_notifies(success, cb, lp) == success /\ cb /\ lp

\* update_tool_data, l. 263-267: sequence_data.update({...}) sets the two
\* derived keys of the payload that was read; the first puts the parsed
\* dict in the payload's place.
merge_structure_replacing(sequence_data, parsed) ==
    [base |-> "",
     secondary_structure |-> parsed.secondary_structure,
     trnascan_sequence |-> parsed.trnascan_sequence]
merge_structure(sequence_data, parsed) ==
    [sequence_data EXCEPT
        !.secondary_structure = parsed.secondary_structure,
        !.trnascan_sequence = parsed.trnascan_sequence]

\* update_tool_data, l. 242-326: the table after the call and what the call
\* returns ("True", "False", or "raise" for the ValueError of l. 244).
update_tool_data_result(table, id, tool, data) ==
    LET unchanged(r) == [table |-> table, ret |-> r]
    IN
    IF tool \notin allowed_tools THEN unchanged("raise")
    ELSE IF tool = "trnascan_se_ss" THEN
        LET parsed == parse_trnascan_output(data)
        IN  IF parsed # <<>> /\ id \in DOMAIN table
            THEN LET sequence_data ==
                         merge_structure(JsonLoads(table[id].sequence_data), parsed[1])
                 IN  [table |-> [table EXCEPT
                                   ![id].sequence_data = JsonDumps(sequence_data),
                                   ![id].trnascan_se_ss = JsonDumps(data)],
                      ret |-> "True"]
            ELSE unchanged("False")
    ELSE IF data.kind # "text" THEN unchanged("False")
    ELSE IF rowcount(table, id) = 0 THEN unchanged("False")
    ELSE IF tool = "sprinzl_pos" THEN
        [table |-> [table EXCEPT ![id].sprinzl_pos = JsonDumps(parse_sprinzl_output(data))],
         ret |-> "True"]
    ELSE
        [table |-> [table EXCEPT ![id].blocks_file = data], ret |-> "True"]

\* clear, l. 378-379: with a callback set, db_update_callback(update_type='clear')
\* is evaluated first; handle_db_update has a required parameter sequence_id,
\* so the call raises TypeError and no task is created.
clear_raises(cb) == cb

Alive == ~terminated

add_sequence(id, data) ==
    /\ Alive /\ calls < MaxCalls
    /\ LET writeOk == Serializable(data)
           notify == add_sequence_notifies(writeOk, db_update_callback, loop)
       IN  /\ memory_cache' = Put(memory_cache, id, data)
           /\ db' = IF writeOk THEN upsert(db, id, InsertedRow(id, data, now)) ELSE db
           /\ tasks' = IF notify THEN Append(tasks, UpdateTask(id)) ELSE tasks
           /\ lastCall' = [op |-> "add_sequence", id |-> id, tool |-> "",
                           committed |-> writeOk,
                           ret |-> IF writeOk THEN "None" ELSE "raise"]
    /\ calls' = calls + 1
    /\ UNCHANGED <<db_update_callback, loop, serverVars, connVars, now, threads>>

update_tool_data(id, tool, data) ==
    /\ Alive /\ calls < MaxCalls
    /\ LET r == update_tool_data_result(db, id, tool, data)
           success == r.ret = "True"
           notify == update_tool_data_notifies(success, db_update_callback, loop)
       IN  /\ db' = r.table
           /\ tasks' = IF notify THEN Append(tasks, UpdateTask(id)) ELSE tasks
           /\ lastCall' = [op |-> "update_tool_data", id |-> id, tool |-> tool,
                           committed |-> success, ret |-> r.ret]
    /\ calls' = calls + 1
    /\ UNCHANGED <<memory_cache, db_update_callback, loop, serverVars, connVars,
                   now, threads>>

clear ==
    /\ Alive /\ calls < MaxCalls
    /\ memory_cache' = Empty
    /\ db' = delete_all(db)
    /\ lastCall' = [op |-> "clear", id |-> 0, tool |-> "", committed |-> TRUE,
                    ret |-> IF clear_raises(db_update_callback) THEN "raise" ELSE "None"]
    /\ calls' = calls + 1
    /\ UNCHANGED <<tasks, db_update_callback, loop, serverVars, connVars, now, threads>>

\* ------------------------------------- SequenceCache: calls, step by step
\* The calls as threads run them against each other: no lock is taken in
\* cache.py, every call opens its own connection, and each SQL statement
\* with its commit is one step.  A call in progress is <<op, id, argument,
\* what it has read>>.
Call(op, id, arg, read) == [op |-> op, id |-> id, arg |-> arg, read |-> read]

\* add_sequence, l. 107: the mirror is written.
AddMirror(id, data) ==
    /\ Alive /\ calls < MaxCalls
    /\ memory_cache' = Put(memory_cache, id, data)
    /\ threads' = Append(threads, Call("add_sequence", id, <<data>>, <<>>))
    /\ calls' = calls + 1
    /\ UNCHANGED <<db, db_update_callback, loop, tasks, lastCall, serverVars,
                   connVars, now>>

\* add_sequence, l. 110-145: the INSERT OR REPLACE, its commit, the callback.
AddInsert(i) ==
    /\ Alive /\ threads[i].op = "add_sequence"
    /\ LET id == threads[i].id
           data == threads[i].arg[1]
           writeOk == Serializable(data)
           notify == add_sequence_notifies(writeOk, db_update_callback, loop)
       IN  /\ db' = IF writeOk THEN upsert(db, id, InsertedRow(id, data, now)) ELSE db
           /\ tasks' = IF notify THEN Append(tasks, UpdateTask(id)) ELSE tasks
           /\ lastCall' = [op |-> "add_sequence", id |-> id, tool |-> "",
                           committed |-> writeOk,
                           ret |-> IF writeOk THEN "None" ELSE "raise"]
    /\ threads' = RemoveAt(threads, i)
    /\ UNCHANGED <<memory_cache, db_update_callback, loop, calls, serverVars,
                   connVars, now>>

\* clear, l. 371: self._memory_cache.clear()
ClearMirror ==
    /\ Alive /\ calls < MaxCalls
    /\ memory_cache' = Empty
    /\ threads' = Append(threads, Call("clear", 0, <<>>, <<>>))
    /\ calls' = calls + 1
    /\ UNCHANGED <<db, db_update_callback, loop, tasks, lastCall, serverVars,
                   connVars, now>>

\* clear, l. 372-379: the DELETE, its commit, the callback.
ClearDelete(i) ==
    /\ Alive /\ threads[i].op = "clear"
    /\ db' = delete_all(db)
    /\ lastCall' = [op |-> "clear", id |-> 0, tool |-> "", committed |-> TRUE,
                    ret |-> IF clear_raises(db_update_callback) THEN "raise" ELSE "None"]
    /\ threads' = RemoveAt(threads, i)
    /\ UNCHANGED <<memory_cache, db_update_callback, loop, tasks, calls,
                   serverVars, connVars, now>>

\* update_tool_data of the structure slot, l. 254-261: the output parses and
\* the SELECT of the payload finds the row; the statement is finished by
\* fetchone, no transaction is open, and the connection holds no lock.
StructureSelect(id, data) ==
    /\ Alive /\ calls < MaxCalls
    /\ parse_trnascan_output(data) # <<>>
    /\ id \in DOMAIN db
    /\ threads' = Append(threads, Call("update_tool_data", id, <<data>>,
                                       <<db[id].sequence_data>>))
    /\ calls' = calls + 1
    /\ UNCHANGED <<memory_cache, db, db_update_callback, loop, tasks, lastCall,
                   serverVars, connVars, now>>

\* update_tool_data of the structure slot, l. 262-326: the payload that was
\* read is merged and written back with the slot by UPDATE ... WHERE
\* sequence_id = ?, which changes the row the table holds now, if any.
StructureUpdate(i) ==
    /\ Alive /\ threads[i].op = "update_tool_data"
    /\ LET id == threads[i].id
           data == threads[i].arg[1]
           sequence_data == merge_structure(JsonLoads(threads[i].read[1]),
                                            parse_trnascan_output(data)[1])
           success == rowcount(db, id) > 0
           notify == update_tool_data_notifies(success, db_update_callback, loop)
       IN  /\ db' = IF success
                    THEN [db EXCEPT ![id].sequence_data = JsonDumps(sequence_data),
                                    ![id].trnascan_se_ss = JsonDumps(data)]
                    ELSE db
           /\ tasks' = IF notify THEN Append(tasks, UpdateTask(id)) ELSE tasks
           /\ lastCall' = [op |-> "update_tool_data", id |-> id,
                           tool |-> "trnascan_se_ss", committed |-> success,
                           ret |-> IF success THEN "True" ELSE "False"]
    /\ threads' = RemoveAt(threads, i)
    /\ UNCHANGED <<memory_cache, db_update_callback, loop, calls, serverVars,
                   connVars, now>>

set_update_callback ==
    /\ Alive /\ ~db_update_callback
    /\ db_update_callback' = TRUE
    /\ UNCHANGED <<memory_cache, db, loop, tasks, lastCall, calls, serverVars,
                   connVars, now, threads>>

set_event_loop ==
    /\ Alive /\ ~loop
    /\ loop' = TRUE
    /\ UNCHANGED <<memory_cache, db, db_update_callback, tasks, lastCall, calls,
                   serverVars, connVars, now, threads>>

\* get_by_rnacentral_id, l. 157-183, called by a user of the cache: a SELECT
\* on the table; the mirror is neither read nor written.
Get(id) ==
    /\ Alive
    /\ lastCall' = [op |-> "get_by_rnacentral_id", id |-> id, tool |-> "",
                    committed |-> FALSE,
                    ret |-> IF get_by_rnacentral_id(db, id) = <<>>
                            THEN "None" ELSE "dict"]
    /\ UNCHANGED <<memory_cache, db, db_update_callback, loop, tasks, calls,
                   serverVars, connVars, now, threads>>

\* ------------------------------------------------------ messages and sends
AuthSuccessMsg(token) == [type |-> "auth_success", token |-> token]
AuthErrorMsg(m) == [type |-> "auth_error", message |-> m]
ErrorMsg(m) == [type |-> "error", message |-> m]
ResponseMsg == [type |-> "response", message |-> "response"]
DbUpdateMsg(id, data) == [type |-> "db_update", sequence_id |-> id, data |-> data]
NoMsg == [type |-> ""]

\* send_db_state, l. 232-258: every row of the table, as the dicts of the list.
db_state_first_row(table) ==
    [id \in {i \in DOMAIN table : \A j \in DOMAIN table : i <= j} |-> RowView(table[id])]
db_state(table) == [id \in DOMAIN table |-> RowView(table[id])]
DbStateMsg(table) == [type |-> "db_state", data |-> db_state(table)]

\* websocket.send: the message reaches a connection whose peer has not closed;
\* on any other connection send raises ConnectionClosed.
SendWorks(c) == conn[c] = "open"
Healthy == {c \in Conns : SendWorks(c)}

\* One send of message m to the connections cs.
Send(m, cs) == [msg |-> m, to |-> cs \cap Healthy, failed |-> cs \ Healthy]

\* What the connections hold after send s: a db_state replaces the records
\* a connection holds, a db_update replaces one record, a db_clear removes
\* them all (the message formats of l. 189-196, 255-258 and 303-305).
Received(v, s) ==
    [c \in Conns |->
        IF c \notin s.to THEN v[c]
        ELSE IF s.msg.type = "db_state" THEN s.msg.data
        ELSE IF s.msg.type = "db_update" THEN Put(v[c], s.msg.sequence_id, s.msg.data)
        ELSE IF s.msg.type = "db_clear" THEN Empty
        ELSE v[c]]

\* ------------------------------------------- handle_db_update on the loop
\* handle_db_update, l. 189-200: the record that was read is sent to every
\* member of clients; nothing is sent when no record was found.
broadcast_targets(data, cs) == IF data # <<>> THEN cs ELSE {}

\* handle_db_update, l. 197-200 and 211-216: gather(..., return_exceptions=True)
\* returns the exceptions of the sends, so none reaches the except clause.
handle_db_update_raises(failed) == FALSE

\* handle_db_update, l. 193-200: the sends run together under gather, each to
\* its own end; a send reaches every target whose connection works.
gather_stops_at_failure(targets, healthy) ==
    IF targets \subseteq healthy THEN targets ELSE {}
gather_delivers(targets, healthy) == targets \cap healthy

\* handle_db_update, l. 182-187: the executor reads the record.
TaskFetch(i) ==
    /\ Alive
    /\ tasks[i].kind = "update" /\ tasks[i].stage = "scheduled"
    /\ tasks' = [tasks EXCEPT ![i].stage = "fetched",
                              ![i].data = get_by_rnacentral_id(db, tasks[i].id)]
    /\ UNCHANGED <<memory_cache, db, db_update_callback, loop, lastCall, calls,
                   serverVars, connVars, now, threads>>

\* handle_db_update, l. 189-205: the broadcast of the record that was read.
TaskBroadcast(i) ==
    /\ Alive
    /\ tasks[i].stage = "fetched"
    /\ LET t == tasks[i]
           targets == broadcast_targets(t.data, clients)
       IN  /\ wire' = IF targets # {}
                      THEN [msg |-> DbUpdateMsg(t.id, t.data[1]),
                            to |-> gather_delivers(targets, Healthy),
                            failed |-> targets \ Healthy]
                      ELSE wire
           /\ callbackFailed' =
                  (callbackFailed \/ handle_db_update_raises(targets \ Healthy))
    /\ tasks' = RemoveAt(tasks, i)
    /\ view' = IF wire' = wire THEN view ELSE Received(view, wire')
    /\ UNCHANGED <<memory_cache, db, db_update_callback, loop, lastCall, calls,
                   serverVars, conn, pc, now, threads>>

\* ----------------------------------- handle_db_update(None, 'clear')
DbClearMsg == [type |-> "db_clear"]

\* The coroutine handle_db_update(None, 'clear') on the loop.  data holds the
\* iteration of broadcast_full_state over self.clients: the client whose
\* send_db_state is awaited, the clients not yet visited, and the size of the
\* set when the iteration began.
ClearTask == [kind |-> "clear", id |-> 0, stage |-> "scheduled", data |-> <<>>]

\* broadcast_db_clear, l. 306-308: gather without return_exceptions raises the
\* first exception of a send to the routine that awaits it.
broadcast_db_clear_raises(failed) == failed # {}

\* handle_db_update(None, 'clear') is awaited on the loop.
handle_db_update_clear ==
    /\ Alive /\ calls < MaxCalls
    /\ tasks' = Append(tasks, ClearTask)
    /\ calls' = calls + 1
    /\ UNCHANGED <<memory_cache, db, db_update_callback, loop, lastCall,
                   serverVars, connVars, now, threads>>

\* handle_db_update, l. 207-216, and broadcast_db_clear, l. 297-308: the
\* clear notice goes to every member of clients; an exception of a send ends
\* the routine (the except clause re-raises it), otherwise
\* broadcast_full_state, l. 264-270, begins its iteration.
TaskClearNotice(i) ==
    /\ Alive
    /\ tasks[i].kind = "clear" /\ tasks[i].stage = "scheduled"
    /\ wire' = IF clients # {} THEN Send(DbClearMsg, clients) ELSE wire
    /\ IF broadcast_db_clear_raises(clients \ Healthy)
       THEN /\ tasks' = RemoveAt(tasks, i)
            /\ callbackFailed' = TRUE
       ELSE /\ callbackFailed' = callbackFailed
            /\ IF clients = {}
               THEN tasks' = RemoveAt(tasks, i)
               ELSE \E c \in clients :
                       tasks' = [tasks EXCEPT
                                   ![i].stage = "notified",
                                   ![i].data = <<[cur |-> c,
                                                  left |-> clients \ {c},
                                                  size |-> Cardinality(clients)]>>]
    /\ view' = IF wire' = wire THEN view ELSE Received(view, wire')
    /\ UNCHANGED <<memory_cache, db, db_update_callback, loop, lastCall, calls,
                   serverVars, conn, pc, now, threads>>

\* broadcast_full_state, l. 269-270: send_db_state of the current client (it
\* catches the exception of its send, l. 259-262), then the next element of
\* the set iterator, which raises RuntimeError when the set changed size.
TaskStateSend(i) ==
    /\ Alive
    /\ tasks[i].kind = "clear" /\ tasks[i].stage = "notified"
    /\ LET it == tasks[i].data[1]
           rest == it.left \cap clients
       IN  /\ wire' = Send(DbStateMsg(db), {it.cur})
           /\ IF Cardinality(clients) # it.size
              THEN /\ tasks' = RemoveAt(tasks, i)
                   /\ callbackFailed' = TRUE
              ELSE /\ callbackFailed' = callbackFailed
                   /\ IF rest = {}
                      THEN tasks' = RemoveAt(tasks, i)
                      ELSE \E c \in rest :
                              tasks' = [tasks EXCEPT
                                          ![i].data = <<[cur |-> c,
                                                         left |-> it.left \ {c},
                                                         size |-> it.size]>>]
    /\ view' = IF wire' = wire THEN view ELSE Received(view, wire')
    /\ UNCHANGED <<memory_cache, db, db_update_callback, loop, lastCall, calls,
                   serverVars, conn, pc, now, threads>>

\* -------------------------------------------------------- tokens
\* hmac.new(SECRET_KEY, token, sha256).hexdigest()
Sign(key, token) == <<key, token>>

\* secrets.token_hex(32): a token no earlier call returned.
FreshToken == Cardinality(DOMAIN issued) + 1

\* generate_token, l. 63-72: the entry stored for the new token.
generate_token_entry(token, time) ==
    [expiration |-> time + TokenTTLHours, signature |-> Sign(SECRET_KEY, token)]

\* verify_token, l. 77-90: what it returns ...
verify_token_strict(tokens, token, time) ==
    IF token \notin DOMAIN tokens THEN FALSE
    ELSE IF time >= tokens[token].expiration THEN FALSE
    ELSE tokens[token].signature = Sign(SECRET_KEY, token)
verify_token(tokens, token, time) ==
    IF token \notin DOMAIN tokens THEN FALSE
    ELSE IF time > tokens[token].expiration THEN FALSE
    ELSE tokens[token].signature = Sign(SECRET_KEY, token)

\* ... and the active tokens it leaves (l. 81-82: an expired token is deleted).
verify_token_keeps(tokens, token, time) == tokens
verify_token_evicts(tokens, token, time) ==
    IF token \in DOMAIN tokens /\ time > tokens[token].expiration
    THEN [t \in (DOMAIN tokens) \ {token} |-> tokens[t]]
    ELSE tokens

\* AuthenticationError.__init__, l. 34-38
auth_failure_terminates_late(attempts) == attempts > MAX_ATTEMPTS
auth_failure_terminates(attempts) == attempts >= MAX_ATTEMPTS

\* authenticate, l. 94
password_matches(password, configured) == password = configured

\* The password an auth message carries: data.get('password', ''), a string
\* (right, wrong, or the '' of an absent key) or JSON null.
PasswordInputs == {Str("secret"), Str("wrong"), Str(""), None}

\* The token a non-auth message carries: data.get('token'), absent, a string
\* (value 0: a string that was never issued) or a JSON array or object.
TokenInputs ==
    {[kind |-> "missing", value |-> 0], [kind |-> "unhashable", value |-> 0],
     [kind |-> "string", value |-> 0]}
    \cup {[kind |-> "string", value |-> t] : t \in DOMAIN issued}

\* ------------------------------------------------- connections and handlers
\* handle_message, l. 167-170 with unregister, l. 226: clients.remove raises
\* KeyError for a connection that never registered, and the removal from
\* authenticated_clients of l. 169-170 is then not reached.
finally_clients_keeps(c, cs) == cs
finally_clients(c, cs) == cs \ {c}
finally_authenticated(c, cs, auth) == IF c \in cs THEN auth \ {c} ELSE auth

\* The handler of c leaves its loop through the finally block.
HandlerLeaves(c) ==
    /\ clients' = finally_clients(c, clients)
    /\ authenticated_clients' = finally_authenticated(c, clients, authenticated_clients)
    /\ conn' = [conn EXCEPT ![c] = "done"]
    /\ pc' = [pc EXCEPT ![c] = "idle"]

\* The handler of c sends reply m and goes on to the next message; if the
\* peer is gone the send raises and the handler leaves.
Reply(c, m) ==
    /\ wire' = Send(m, {c})
    /\ IF SendWorks(c)
       THEN /\ pc' = [pc EXCEPT ![c] = "idle"]
            /\ UNCHANGED <<clients, authenticated_clients, conn>>
       ELSE HandlerLeaves(c)

\* A message is taken from c: c is open, or closed with a message buffered,
\* and the handler of c is not inside an earlier message (l. 102, 142-146:
\* the query runs in the executor and only this handler awaits it).  The
\* first is a handler that calls process_query on the loop itself.
Receives_when_no_query(c) ==
    /\ Alive /\ pc[c] = "idle" /\ conn[c] \in {"open", "closed_buf"}
    /\ \A d \in Conns : pc[d] # "query"
Receives(c) == Alive /\ pc[c] = "idle" /\ conn[c] \in {"open", "closed_buf"}

\* websockets.serve accepts a connection and starts handle_message.
Connect(c) ==
    /\ Alive /\ db_update_callback /\ loop
    /\ conn[c] = "new"
    /\ conn' = [conn EXCEPT ![c] = "open"]
    /\ UNCHANGED <<cacheVars, serverVars, pc, wire, callbackFailed, now,
                   view>>

\* The peer closes c, with or without a last message still to be read.
Close(c, buffered) ==
    /\ Alive
    /\ conn[c] = "open"
    /\ conn' = [conn EXCEPT ![c] = IF buffered /\ pc[c] # "query"
                                   THEN "closed_buf" ELSE "closed"]
    /\ UNCHANGED <<cacheVars, serverVars, pc, wire, callbackFailed, now,
                   view>>

\* handle_message, l. 102 and 165-170: the message loop ends on a closed
\* connection.
HandlerExit(c) ==
    /\ Alive /\ pc[c] = "idle" /\ conn[c] = "closed"
    /\ HandlerLeaves(c)
    /\ UNCHANGED <<cacheVars, active_tokens, PASSWORD, incorrect_password_attempts,
                   terminated, issued, lastAuth, wire, callbackFailed, now,
                   view>>

\* authenticate, l. 92-98: authenticated_clients after a call; a wrong
\* password raises before the set is touched.
authenticate_marks_revoking(ok, c, auth) == IF ok THEN auth \cup {c} ELSE auth \ {c}
authenticate_marks(ok, c, auth) == IF ok THEN auth \cup {c} ELSE auth

\* AuthenticationError.__init__, l. 34, raised by authenticate, l. 98: the
\* class-wide count of failures after a call; the success path, l. 94-97,
\* does not touch it.
attempts_after_resetting(ok, attempts) == IF ok THEN 0 ELSE attempts + 1
attempts_after(ok, attempts) == IF ok THEN attempts ELSE attempts + 1

\* handle_message, l. 109-121: the reply to an auth message; str(e) is the
\* message authenticate raised with.
auth_reply_generic(ok, token) ==
    IF ok THEN AuthSuccessMsg(token) ELSE ErrorMsg("Invalid password")
auth_reply(ok, token) ==
    IF ok THEN AuthSuccessMsg(token) ELSE AuthErrorMsg("Invalid password")

\* handle_message, l. 107-121, with authenticate, l. 92-98, generate_token and
\* AuthenticationError.__init__: an auth message is handled up to the send of
\* its reply.  After the MAX_ATTEMPTS-th failure the process signals itself
\* and no reply is sent.
HandleAuth(c, password) ==
    /\ Receives(c)
    /\ LET ok == password_matches(password, PASSWORD)
           attempts == attempts_after(ok, incorrect_password_attempts)
           dies == ~ok /\ auth_failure_terminates(attempts)
           token == FreshToken
           auth == authenticate_marks(ok, c, authenticated_clients)
           leaves == ~dies /\ ~SendWorks(c)
       IN  /\ incorrect_password_attempts' = attempts
           /\ terminated' = dies
           /\ active_tokens' = IF ok THEN Put(active_tokens, token,
                                              generate_token_entry(token, now))
                               ELSE active_tokens
           /\ issued' = IF ok THEN Put(issued, token, now) ELSE issued
           /\ wire' = IF dies THEN wire ELSE Send(auth_reply(ok, token), {c})
           /\ clients' = IF leaves THEN finally_clients(c, clients) ELSE clients
           /\ authenticated_clients' =
                  IF leaves THEN finally_authenticated(c, clients, auth) ELSE auth
           /\ conn' = IF leaves THEN [conn EXCEPT ![c] = "done"] ELSE conn
           /\ pc' = IF ok /\ SendWorks(c) THEN [pc EXCEPT ![c] = "register"] ELSE pc
           /\ lastAuth' = [ok |-> ok, token |-> IF ok THEN token ELSE 0,
                           failsBefore |-> lastAuth.run,
                           run |-> IF ok THEN 0 ELSE lastAuth.run + 1,
                           fails |-> IF ok THEN lastAuth.fails ELSE lastAuth.fails + 1]
    /\ UNCHANGED <<cacheVars, PASSWORD, callbackFailed, now,
                   view>>

\* register, l. 222: send_db_state(websocket) sends to the new connection.
register_recipients_all(c, cs) == cs \cup {c}
register_recipients(c, cs) == {c}

\* handle_message, l. 114, with register, l. 218-222, and send_db_state: after
\* the auth_success send, the connection joins clients and is sent the rows
\* of the table; send_db_state swallows a failing send.
Register(c) ==
    /\ Alive /\ pc[c] = "register"
    /\ clients' = clients \cup {c}
    /\ wire' = Send(DbStateMsg(db), register_recipients(c, clients))
    /\ pc' = [pc EXCEPT ![c] = "idle"]
    /\ view' = IF wire' = wire THEN view ELSE Received(view, wire')
    /\ UNCHANGED <<cacheVars, authenticated_clients, active_tokens, PASSWORD,
                   incorrect_password_attempts, terminated, issued, lastAuth,
                   conn, callbackFailed, now>>

\* handle_message, l. 124-139 and 158-163: the type of the reply to a non-auth
\* message that is not passed on, "" when it is passed on.  A token that is a
\* JSON array or object makes `token not in self.active_tokens` raise
\* TypeError, which the handler of l. 158 answers.
query_reply_unchecked_message(kind, verified, hasMessage) ==
    IF kind = "unhashable" THEN "error"
    ELSE IF ~verified THEN "auth_error"
    ELSE ""
query_reply(kind, verified, hasMessage) ==
    IF kind = "unhashable" THEN "error"
    ELSE IF ~verified THEN "auth_error"
    ELSE IF ~hasMessage THEN "error"
    ELSE ""

ReplyMsg(type, kind) ==
    IF type = "auth_error" THEN AuthErrorMsg("Invalid or expired token")
    ELSE IF kind = "unhashable" THEN ErrorMsg("unhashable type")
    ELSE ErrorMsg("No message provided")

\* handle_message, l. 124-146: a non-auth message up to its reply, or up to
\* the hand-over of the query to the executor.
HandleQuery(c, token, hasMessage) ==
    /\ Receives(c)
    /\ LET checked == token.kind = "string"
           verified == checked /\ verify_token(active_tokens, token.value, now)
           reply == query_reply(token.kind, verified, hasMessage)
       IN  /\ active_tokens' = IF checked
                               THEN verify_token_evicts(active_tokens, token.value, now)
                               ELSE active_tokens
           /\ IF reply = ""
              THEN /\ pc' = [pc EXCEPT ![c] = "query"]
                   /\ conn' = [conn EXCEPT ![c] = IF @ = "closed_buf" THEN "closed" ELSE @]
                   /\ UNCHANGED <<clients, authenticated_clients, wire>>
              ELSE Reply(c, ReplyMsg(reply, token.kind))
    /\ UNCHANGED <<cacheVars, PASSWORD, incorrect_password_attempts, terminated, issued,
                   lastAuth, callbackFailed, now,
                   view>>

\* handle_message, l. 142-163: process_query returns or raises in the executor
\* and the handler sends the response, or the error.
QueryDone(c, raised) ==
    /\ Alive /\ pc[c] = "query"
    /\ Reply(c, IF raised THEN ErrorMsg("exception") ELSE ResponseMsg)
    /\ UNCHANGED <<cacheVars, active_tokens, PASSWORD, incorrect_password_attempts,
                   terminated, issued, lastAuth, callbackFailed, now,
                   view>>

\* handle_message, l. 104 and 153-157: a message that is no JSON text.
HandleBadJson(c) ==
    /\ Receives(c)
    /\ Reply(c, ErrorMsg("Invalid JSON format"))
    /\ UNCHANGED <<cacheVars, active_tokens, PASSWORD, incorrect_password_attempts,
                   terminated, issued, lastAuth, callbackFailed, now,
                   view>>

\* datetime.now() advances.
Tick ==
    /\ Alive /\ now + TickHours <= MaxTicks * TickHours
    /\ now' = now + TickHours
    /\ UNCHANGED <<cacheVars, serverVars, connVars>>

\* ------------------------------------------------------------ specification
\* The state of a process whose mirror is mem, whose store holds table and
\* whose WS_PASSWORD is password; registered: the cache was constructed by
\* WebSocketServer(), which sets the callback and the loop.
InitState(mem, table, registered, password) ==
    /\ memory_cache = mem
    /\ db = table
    /\ db_update_callback = registered
    /\ loop = registered
    /\ tasks = <<>>
    /\ clients = {}
    /\ authenticated_clients = {}
    /\ active_tokens = Empty
    /\ PASSWORD = password
    /\ incorrect_password_attempts = 0
    /\ terminated = FALSE
    /\ now = 0
    /\ conn = [c \in Conns |-> "new"]
    /\ pc = [c \in Conns |-> "idle"]
    /\ wire = [msg |-> NoMsg, to |-> {}, failed |-> {}]
    /\ callbackFailed = FALSE
    /\ issued = Empty
    /\ lastCall = [op |-> "", id |-> 0, tool |-> "", committed |-> FALSE, ret |-> ""]
    /\ lastAuth = [ok |-> FALSE, token |-> 0, failsBefore |-> 0, run |-> 0, fails |-> 0]
    /\ calls = 0
    /\ threads = <<>>
    /\ view = [c \in Conns |-> Empty]

\* The state after construction on the store that holds table.
InitOver(table, registered) == InitState(Empty, table, registered, Str("secret"))

\* The state after construction on an empty store.
InitWith(registered) == InitOver(Empty, registered)

\* The calls of the cache interface, from any thread.
CacheCalls ==
    \/ \E id \in Ids, data \in Payloads : add_sequence(id, data)
    \/ \E id \in Ids, tool \in ToolNames : \E data \in ToolInputs(tool) :
          update_tool_data(id, tool, data)
    \/ clear

\* set_update_callback and set_event_loop, as WebSocketServer.__init__ calls them
Registration ==
    \/ set_update_callback
    \/ set_event_loop

\* The notifications the event loop runs.
LoopTasks ==
    \/ \E i \in DOMAIN tasks : TaskFetch(i)
    \/ \E i \in DOMAIN tasks : TaskBroadcast(i)

\* The sessions a broadcast is sent to: connections that log in with the
\* configured password (at most MaxTokens times), register, and close.
Logins ==
    \/ \E c \in Conns : Connect(c)
    \/ \E c \in Conns : Close(c, FALSE)
    \/ \E c \in Conns : HandlerExit(c)
    \/ \E c \in Conns : FreshToken <= MaxTokens /\ HandleAuth(c, PASSWORD)
    \/ \E c \in Conns : Register(c)

\* The life of a connection, with every password it may send; at most
\* MaxLogins of its authentications succeed.
Sessions ==
    \/ \E c \in Conns : Connect(c)
    \/ \E c \in Conns, buffered \in BOOLEAN : Close(c, buffered)
    \/ \E c \in Conns : HandlerExit(c)
    \/ \E c \in Conns, password \in PasswordInputs :
          /\ password_matches(password, PASSWORD) => FreshToken <= MaxLogins
          /\ HandleAuth(c, password)
    \/ \E c \in Conns : Register(c)

\* The messages of a session after its authentication, and the clock.
Messages ==
    \/ \E c \in Conns, token \in TokenInputs, hasMessage \in BOOLEAN :
          HandleQuery(c, token, hasMessage)
    \/ \E c \in Conns, raised \in BOOLEAN : QueryDone(c, raised)
    \/ \E c \in Conns : HandleBadJson(c)
    \/ Tick

\* The cache used on its own: calls, registration, dispatched notifications.
Init == InitWith(FALSE)
CacheNext == CacheCalls \/ Registration
SpecCache == Init /\ [][CacheNext]_vars

\* The server: the cache with its notifications and the sessions they are
\* broadcast to.
InitServer == InitWith(TRUE)
Next == CacheCalls \/ LoopTasks \/ Logins
Spec == InitServer /\ [][Next]_vars

\* The server's sessions, their authentication and their messages.
AuthNext == Sessions \/ Messages
SpecAuth == InitServer /\ [][AuthNext]_vars

\* The server started with WS_PASSWORD unset: os.getenv returns None (l. 53).
InitUnset == InitState(Empty, Empty, TRUE, None)
SpecUnset == InitUnset /\ [][AuthNext]_vars

\* The server with its event loop running: a notification handed to the loop
\* is run (call_soon_threadsafe and the executor never starve a ready task).
FairSpec == Spec /\ WF_vars(LoopTasks)

\* The clear path of the server, run on the loop for the sessions logged in.
ClearPath ==
    \/ handle_db_update_clear
    \/ \E i \in DOMAIN tasks : TaskClearNotice(i)
    \/ \E i \in DOMAIN tasks : TaskStateSend(i)
ClearNext == Logins \/ ClearPath
SpecClear == InitServer /\ [][ClearNext]_vars

\* The tables sequence_cache.db may hold when the process starts: _init_db,
\* l. 70-92, creates the table only if it does not exist, so the rows an
\* earlier run committed are still there, and __init__ leaves the mirror {}.
StoredTables ==
    {[id \in S |-> InsertedRow(id, Payload("P1"), 0)] : S \in SUBSET Ids}

\* The reads of the cache interface.
Reads == \E id \in Ids : Get(id)

\* The cache opened on the store an earlier run left, as time passes.
InitStore == \E table \in StoredTables : InitOver(table, FALSE)
StoreNext == CacheCalls \/ Reads \/ Tick
SpecStore == InitStore /\ [][StoreNext]_vars

\* The cache after a run of committed adds: the mirror holds the payloads of
\* the rows.
InitWarm ==
    \E table \in StoredTables :
        InitState([id \in DOMAIN table |-> JsonLoads(table[id].sequence_data)],
                  table, FALSE, Str("secret"))

\* Calls running against each other on worker threads, with payloads that
\* json.dumps accepts.
ThreadNext ==
    \/ \E id \in Ids, data \in {d \in Payloads : Serializable(d)} : AddMirror(id, data)
    \/ \E i \in DOMAIN threads : AddInsert(i)
    \/ ClearMirror
    \/ \E i \in DOMAIN threads : ClearDelete(i)
    \/ \E id \in Ids, data \in ToolInputs("trnascan_se_ss") : StructureSelect(id, data)
    \/ \E i \in DOMAIN threads : StructureUpdate(i)
SpecThreads == InitWarm /\ [][ThreadNext]_vars

\* The server while queries run: the sessions, their queries, the records a
\* running query's worker thread commits, and the notifications.
Queries ==
    \/ \E c \in Conns, token \in TokenInputs : HandleQuery(c, token, TRUE)
    \/ \E c \in Conns, raised \in BOOLEAN : QueryDone(c, raised)
    \/ \E id \in Ids :
          /\ \E c \in Conns : pc[c] = "query"
          /\ add_sequence(id, Payload("P1"))
QueryNext == Logins \/ Queries \/ LoopTasks
SpecQuery == InitServer /\ [][QueryNext]_vars

\* ------------------------------------------------------------------ claims
\* C1: after any sequence of add_sequence, update_tool_data and clear calls,
\* get_cache_size reports the same number of entries for the memory mirror
\* and for the persistent store.
C1_SizesAgree ==
    get_cache_size(memory_cache, db).memory_entries
        = get_cache_size(memory_cache, db).persistent_entries

\* C2: a notification is dispatched only by an add_sequence or update_tool_data
\* call whose persistent write has committed (the row of that id is in the
\* table with what the call wrote), and a call that raises or returns False
\* dispatches none.
C2_CommitBeforeNotify ==
    [][ /\ Len(tasks') > Len(tasks) =>
              LET n == tasks'[Len(tasks')]
              IN  /\ calls' = calls + 1
                  /\ lastCall'.op \in {"add_sequence", "update_tool_data"}
                  /\ lastCall'.ret \in {"None", "True"}
                  /\ tasks' = Append(tasks, UpdateTask(lastCall'.id))
                  /\ n.id \in DOMAIN db'
                  /\ lastCall'.op = "add_sequence" =>
                        JsonLoads(db'[n.id].sequence_data) = memory_cache'[n.id]
                  /\ lastCall'.op = "update_tool_data" =>
                        db'[n.id][lastCall'.tool] # None
        /\ (calls' = calls + 1 /\ lastCall'.ret \in {"False", "raise"}) =>
              tasks' = tasks ]_vars

\* With the callback and the loop set, one call committed and was dispatched,
\* and the next call's write failed and dispatched nothing.
C2_Witness ==
    /\ db_update_callback /\ loop
    /\ Len(tasks) = 1
    /\ lastCall.op = "add_sequence" /\ lastCall.ret = "raise"

\* C3: when an update is broadcast, a send that fails on one session neither
\* keeps the message from any other registered session whose send works nor
\* makes the notification raise.
C3_BroadcastIsolation ==
    [][ \A i \in DOMAIN tasks :
           (TaskBroadcast(i) /\ tasks[i].data # <<>> /\ clients # {}) =>
               /\ wire'.msg = DbUpdateMsg(tasks[i].id, tasks[i].data[1])
               /\ \A c \in clients : SendWorks(c) => c \in wire'.to
               /\ callbackFailed' = callbackFailed ]_vars

\* An update reached one session while the send to another failed.
C3_Witness ==
    /\ wire.msg.type = "db_update"
    /\ wire.to # {} /\ wire.failed # {}
    /\ ~callbackFailed

\* C4: a clear() made while sessions are registered hands the event loop a
\* clear notification, the one that sends every session the clear notice and
\* then the full state.
C4_ClearNotifies ==
    [][ (clear /\ clients # {}) =>
            \/ \E i \in DOMAIN tasks' : tasks'[i].kind = "clear"
            \/ wire'.msg.type \in {"db_clear", "db_state"} /\ clients \subseteq wire'.to
      ]_vars

\* C5 (as the specification states it): five consecutive failed authenticate
\* calls terminate the server process, and the process is never terminated
\* when fewer than five failures have occurred consecutively.
C5_ConsecutiveLockout ==
    /\ lastAuth.run >= MAX_ATTEMPTS => terminated
    /\ terminated => lastAuth.run >= MAX_ATTEMPTS

\* C5 (amended): the process is terminated exactly when five authenticate
\* calls have failed in total since it started, consecutive or not; so five
\* consecutive failures terminate it, and fewer than five failures in total
\* never do.
C5_CumulativeLockout ==
    /\ terminated <=> lastAuth.fails >= MAX_ATTEMPTS
    /\ lastAuth.fails = incorrect_password_attempts
    /\ lastAuth.run >= MAX_ATTEMPTS => terminated

\* The fifth failure in total terminated the process although a success had
\* come between the failures.
C5_Witness ==
    /\ terminated
    /\ lastAuth.fails = MAX_ATTEMPTS
    /\ lastAuth.run < MAX_ATTEMPTS

\* C6: when four failed authenticate calls are followed by a successful one,
\* the process is not terminated and the token the success returned verifies
\* for as long as it has not passed its expiration.
C6_FourFailuresThenSuccess ==
    (lastAuth.ok /\ lastAuth.failsBefore = MAX_ATTEMPTS - 1) =>
        /\ ~terminated
        /\ lastAuth.token \in DOMAIN issued
        /\ now <= issued[lastAuth.token] + TokenTTLHours =>
              verify_token(active_tokens, lastAuth.token, now)

\* Four failures, then a success whose token still verifies at the very hour
\* of its expiration.
C6_Witness ==
    /\ lastAuth.ok /\ lastAuth.failsBefore = MAX_ATTEMPTS - 1
    /\ ~terminated
    /\ now = issued[lastAuth.token] + TokenTTLHours
    /\ verify_token(active_tokens, lastAuth.token, now)

\* C7: a non-authentication message is passed to query processing only if
\* verify_token returns True for its token; a message whose token does not
\* verify (missing, unknown, expired) is answered auth_error on the sending
\* connection only, is not processed, and the connection stays open.
C7_TokenGate ==
    [][ \A c \in Conns, token \in TokenInputs, hasMessage \in BOOLEAN :
          HandleQuery(c, token, hasMessage) =>
             LET verified == /\ token.kind = "string"
                             /\ verify_token(active_tokens, token.value, now)
             IN  /\ pc'[c] = "query" => verified
                 /\ (~verified /\ SendWorks(c)) =>
                       /\ wire'.msg.type = "auth_error"
                       /\ wire'.to = {c} /\ wire'.failed = {}
                       /\ pc'[c] = "idle"
                       /\ conn'[c] = "open" ]_vars

\* C8: verify_token returns True exactly for a token that generate_token
\* issued, that is still among the active tokens and whose expiration has not
\* passed; verifying a token past its expiration removes it from the active
\* tokens, and a removed token never verifies again.
C8_VerifyToken ==
    /\ [](\A t \in {0} \cup DOMAIN issued :
             verify_token(active_tokens, t, now) <=>
                 /\ t \in DOMAIN issued
                 /\ t \in DOMAIN active_tokens
                 /\ now <= issued[t] + TokenTTLHours)
    /\ [][ \A c \in Conns, token \in TokenInputs, hasMessage \in BOOLEAN :
             ( /\ token.kind = "string"
               /\ token.value \in DOMAIN active_tokens
               /\ now > issued[token.value] + TokenTTLHours
               /\ HandleQuery(c, token, hasMessage) ) =>
                   token.value \notin DOMAIN active_tokens' ]_vars
    /\ [][ \A t \in DOMAIN issued :
             t \notin DOMAIN active_tokens =>
                 /\ t \notin DOMAIN active_tokens'
                 /\ ~verify_token(active_tokens', t, now') ]_vars

\* A token was issued, expired, and was removed when it was verified.
C8_Witness ==
    \E t \in DOMAIN issued :
        /\ t \notin DOMAIN active_tokens
        /\ now > issued[t] + TokenTTLHours

\* C9: a successful authenticate marks the connection authenticated and
\* replies auth_success with a token never issued before; the connection is
\* then registered and sent one db_state holding every record of the
\* persistent store; neither message is sent to any other connection.
C9_AuthSuccess ==
    [][ \A c \in Conns :
          /\ (HandleAuth(c, PASSWORD) /\ SendWorks(c)) =>
                /\ c \in authenticated_clients'
                /\ FreshToken \notin DOMAIN issued
                /\ FreshToken \in DOMAIN active_tokens'
                /\ wire' = [msg |-> AuthSuccessMsg(FreshToken), to |-> {c}, failed |-> {}]
                /\ clients' = clients
                /\ pc'[c] = "register"
          /\ Register(c) =>
                /\ c \in authenticated_clients'
                /\ clients' = clients \cup {c}
                /\ wire'.msg.type = "db_state"
                /\ DOMAIN wire'.msg.data = DOMAIN db
                /\ \A id \in DOMAIN db :
                      <<wire'.msg.data[id]>> = get_by_rnacentral_id(db, id)
                /\ wire'.to \cup wire'.failed = {c}
                /\ SendWorks(c) => wire'.to = {c} ]_vars

\* A second connection registered and was sent, alone, a db_state with
\* records in it.
C9_Witness ==
    /\ Cardinality(clients) = 2
    /\ wire.msg.type = "db_state"
    /\ Cardinality(wire.to) = 1
    /\ DOMAIN wire.msg.data # {}

\* C10: a committed add_sequence or update_tool_data made with the callback
\* and the loop set hands the loop a notification for its id; a notification
\* handed to the loop is eventually run; it reads the record, and if the
\* record exists a db_update with that id is sent to every session registered
\* when the broadcast runs.
C10_UpdateReachesSessions ==
    /\ [][ ( /\ calls' = calls + 1
             /\ lastCall'.op \in {"add_sequence", "update_tool_data"}
             /\ lastCall'.ret \in {"None", "True"}
             /\ db_update_callback /\ loop ) =>
               \E i \in DOMAIN tasks' : tasks'[i] = UpdateTask(lastCall'.id) ]_vars
    /\ [][ \A i \in DOMAIN tasks :
             /\ (TaskFetch(i) /\ tasks[i].id \in DOMAIN db) =>
                   tasks'[i].data = <<RowView(db[tasks[i].id])>>
             /\ (TaskBroadcast(i) /\ tasks[i].data # <<>> /\ clients # {}) =>
                   /\ wire'.msg.type = "db_update"
                   /\ wire'.msg.sequence_id = tasks[i].id
                   /\ wire'.to \cup wire'.failed = clients
                   /\ wire'.to = clients \cap Healthy ]_vars
    /\ (tasks # <<>>) ~> (tasks = <<>>)

\* A tool update was committed and its db_update reached both registered
\* sessions.
C10_Witness ==
    /\ lastCall.op = "update_tool_data" /\ lastCall.ret = "True"
    /\ tasks = <<>>
    /\ wire.msg.type = "db_update" /\ wire.msg.sequence_id = lastCall.id
    /\ wire.msg.data.tool_data[lastCall.tool] # None
    /\ Cardinality(wire.to) = 2

\* C11: an add_sequence whose persistent write fails does not partially
\* apply: the mirror does not keep the value passed for that id, and no
\* notification is dispatched.
C11_NoPartialAdd ==
    [][ \A id \in Ids, data \in Payloads :
          (add_sequence(id, data) /\ lastCall'.ret = "raise") =>
              /\ ~(id \in DOMAIN memory_cache' /\ memory_cache'[id] = data)
              /\ tasks' = tasks ]_vars

\* C12: after any sequence of add_sequence and update_tool_data calls, every
\* id held in the mirror with a payload the store accepts has a persistent
\* row whose stored payload equals the mirror's payload.
C12_ContentAgreement ==
    \A id \in DOMAIN memory_cache :
        Serializable(memory_cache[id]) =>
            /\ id \in DOMAIN db
            /\ JsonLoads(db[id].sequence_data) = memory_cache[id]

\* C13: an add_sequence that repeats the call before it (same id, same
\* payload, both returning normally) leaves exactly one record for the id,
\* with payload, locations, location count, friendly name, link and tool
\* slots as the first call left them, and changes no other record.
C13_UpsertIdempotent ==
    [][ \A id \in Ids, data \in Payloads :
          ( /\ lastCall.op = "add_sequence" /\ lastCall.ret = "None"
            /\ lastCall.id = id /\ memory_cache[id] = data
            /\ add_sequence(id, data) ) =>
              /\ lastCall'.ret = "None"
              /\ DOMAIN db' = DOMAIN db /\ id \in DOMAIN db'
              /\ RowView(db'[id]) = RowView(db[id])
              /\ db'[id].num_locations = Len(IdMapping(id).locations)
              /\ \A other \in DOMAIN db \ {id} : db'[other] = db[other]
              /\ memory_cache' = memory_cache ]_vars

\* Two committed adds of the id that has three locations, one record.
C13_Witness ==
    /\ calls = 2
    /\ lastCall.op = "add_sequence" /\ lastCall.ret = "None" /\ lastCall.id = 1
    /\ tasks = <<UpdateTask(1), UpdateTask(1)>>
    /\ DOMAIN db = {1} /\ DOMAIN memory_cache = {1}
    /\ db[1].num_locations = 3

\* C14: update_tool_data with a slot name outside the fixed set returns
\* False to the caller and leaves the record, the store and the mirror
\* unchanged.
C14_UnknownSlotReturnsFalse ==
    [][ \A id \in Ids, tool \in ToolNames \ allowed_tools :
          \A data \in ToolInputs(tool) :
             update_tool_data(id, tool, data) =>
                 /\ lastCall'.ret = "False"
                 /\ db' = db /\ memory_cache' = memory_cache /\ tasks' = tasks ]_vars

\* C15: update_tool_data with any of the three slot names for an id that has
\* no record returns False, creates no record and dispatches no notification.
C15_UnknownIdReturnsFalse ==
    [][ \A id \in Ids, tool \in allowed_tools :
          \A data \in ToolInputs(tool) :
             (id \notin DOMAIN db /\ update_tool_data(id, tool, data)) =>
                 /\ lastCall'.ret = "False"
                 /\ db' = db /\ memory_cache' = memory_cache /\ tasks' = tasks ]_vars

\* With the callback and the loop set and another record stored, a slot
\* update for an id without a record returned False.
C15_Witness ==
    /\ db_update_callback /\ loop
    /\ lastCall.op = "update_tool_data" /\ lastCall.tool \in allowed_tools
    /\ lastCall.ret = "False"
    /\ lastCall.id \notin DOMAIN db /\ DOMAIN db # {}
    /\ Len(tasks) = 1

\* C16: for an existing record, a structure-slot update with an output in
\* which both a sequence line and a structure line parse sets the slot and
\* merges the two derived fields into the stored payload in one update and
\* returns True; with any other output it changes nothing and returns False.
C16_StructureSlot ==
    [][ \A id \in DOMAIN db, data \in ToolInputs("trnascan_se_ss") :
          update_tool_data(id, "trnascan_se_ss", data) =>
             IF data = TrnascanGood
             THEN /\ lastCall'.ret = "True"
                  /\ db'[id].trnascan_se_ss = JsonDumps(data)
                  /\ JsonLoads(db'[id].sequence_data) =
                        [JsonLoads(db[id].sequence_data) EXCEPT
                            !.trnascan_sequence = Str(<<"GCAU">>),
                            !.secondary_structure = Str(<<">>..<<">>)]
                  /\ db' = [db EXCEPT ![id].trnascan_se_ss = db'[id].trnascan_se_ss,
                                      ![id].sequence_data = db'[id].sequence_data]
             ELSE /\ lastCall'.ret = "False"
                  /\ db' = db ]_vars

\* A record whose structure slot is set and whose payload holds the derived
\* fields, another slot of it untouched.
C16_Witness ==
    /\ lastCall.op = "update_tool_data" /\ lastCall.tool = "trnascan_se_ss"
    /\ lastCall.ret = "True"
    /\ lastCall.id \in DOMAIN db
    /\ db[lastCall.id].trnascan_se_ss # None
    /\ JsonLoads(db[lastCall.id].sequence_data).secondary_structure # None
    /\ db[lastCall.id].sprinzl_pos = None

\* C17: once clear() has run, the mirror and the table are both empty and
\* get_by_rnacentral_id returns None for every id stored before it.
C17_ClearEmpties ==
    [][ clear =>
          /\ memory_cache' = Empty
          /\ db' = Empty
          /\ get_cache_size(memory_cache', db') =
                [memory_entries |-> 0, persistent_entries |-> 0]
          /\ \A id \in DOMAIN db \cup DOMAIN memory_cache :
                get_by_rnacentral_id(db', id) = <<>> ]_vars

\* A clear() that returned, made after an earlier call, with nothing left.
C17_Witness ==
    /\ lastCall.op = "clear" /\ lastCall.ret = "None"
    /\ calls = 2
    /\ memory_cache = Empty /\ db = Empty
    /\ \A id \in Ids : get_by_rnacentral_id(db, id) = <<>>

\* C18: clear() completes without raising in every state of the cache
\* (empty or not, callback and loop registered or not), leaving the mirror
\* and the table empty, so that a second clear() leaves the same state.
C18_ClearAlwaysSucceeds ==
    [][ clear =>
          /\ lastCall'.ret = "None"
          /\ memory_cache' = Empty /\ db' = Empty
          /\ (lastCall.op = "clear" => (memory_cache' = memory_cache /\ db' = db)) ]_vars

\* C19: with no event loop registered, every mutation commits and returns
\* normally (add_sequence of a payload the store accepts, update_tool_data of
\* one of the three slots, clear) and no notification is dispatched.
C19_NoLoopNoPush ==
    ~loop =>
        /\ tasks = <<>>
        /\ (lastCall.op = "add_sequence" /\ Serializable(memory_cache[lastCall.id])) =>
              (lastCall.ret = "None" /\ lastCall.id \in DOMAIN db)
        /\ (lastCall.op = "update_tool_data" /\ lastCall.tool \in allowed_tools) =>
              lastCall.ret \in {"True", "False"}
        /\ lastCall.op = "clear" => lastCall.ret = "None"

\* C20: a failure in delivering a notification leaves the mutating call's
\* outcome and its commit as they were, and is observed by the completion
\* callback attached to the handoff: a broadcast in which a send fails is
\* seen as failed by callback_done.
C20_NotificationFailureObserved ==
    [][ \A i \in DOMAIN tasks :
          TaskBroadcast(i) =>
             /\ db' = db /\ memory_cache' = memory_cache /\ lastCall' = lastCall
             /\ (tasks[i].data # <<>> /\ clients \ Healthy # {}) => callbackFailed' ]_vars

\* C21: on the clear path, a send that fails at one session while the clear
\* notice or the full state is broadcast does not raise out of
\* handle_db_update and does not end the routine before the remaining
\* sessions were sent both messages.
C21_ClearPathIsolation ==
    [][\A i \in DOMAIN tasks :
          /\ (TaskClearNotice(i) /\ clients \ Healthy # {})
                => /\ callbackFailed' = callbackFailed
                   /\ Len(tasks') = Len(tasks)
                   /\ tasks'[i].stage = "notified"
          /\ (TaskStateSend(i) /\ ~SendWorks(tasks[i].data[1].cur)
                /\ Cardinality(clients) = tasks[i].data[1].size)
                => callbackFailed' = callbackFailed ]_vars

\* C22: a connection goes from connected and unauthenticated to authenticated
\* to disconnected, never back: it enters authenticated_clients only while it
\* is connected, it leaves the set only in the step in which its handler
\* finishes, and a finished connection never enters it.
C22_AuthenticatedUntilDisconnect ==
    [][\A c \in Conns :
          /\ (c \in authenticated_clients /\ c \notin authenticated_clients')
                => (conn[c] # "done" /\ conn'[c] = "done")
          /\ (c \notin authenticated_clients /\ c \in authenticated_clients')
                => conn[c] \in {"open", "closed_buf"}
          /\ conn[c] = "done" => conn'[c] = "done" ]_vars

\* An authenticated connection has just been refused a wrong password and a
\* rejected token, and is still authenticated.
C22_Witness ==
    \E c \in Conns :
        /\ c \in authenticated_clients /\ c \in clients /\ conn[c] = "open"
        /\ ~lastAuth.ok /\ lastAuth.fails > 0
        /\ wire.msg = AuthErrorMsg("Invalid or expired token") /\ wire.to = {c}

\* C23: every failed authentication attempt is answered with auth_error sent
\* to the requesting connection only, and leaves that connection open and
\* unauthenticated.
C23_FailedAuthAnswered ==
    [][\A c \in Conns, password \in PasswordInputs :
          (/\ incorrect_password_attempts' = incorrect_password_attempts + 1
           /\ SendWorks(c)
           /\ HandleAuth(c, password))
          => /\ wire' = [msg |-> AuthErrorMsg("Invalid password"),
                         to |-> {c}, failed |-> {}]
             /\ conn'[c] = "open"
             /\ c \notin authenticated_clients' ]_vars

\* C23, amended: a failed authentication attempt that brings the count of
\* failures to MAX_ATTEMPTS terminates the process without a reply; every
\* other failed attempt of a connected peer is answered with auth_error sent
\* to the requesting connection only, and leaves that connection open, its
\* handler at the next message, and the authenticated and registered sets as
\* they were.
C23_FailedAuthAnsweredBeforeLockout ==
    [][\A c \in Conns, password \in PasswordInputs :
          (/\ incorrect_password_attempts' = incorrect_password_attempts + 1
           /\ SendWorks(c)
           /\ HandleAuth(c, password))
          => IF incorrect_password_attempts' >= MAX_ATTEMPTS
             THEN terminated' /\ wire' = wire
             ELSE /\ ~terminated'
                  /\ wire' = [msg |-> AuthErrorMsg("Invalid password"),
                              to |-> {c}, failed |-> {}]
                  /\ conn'[c] = "open" /\ pc'[c] = "idle"
                  /\ authenticated_clients' = authenticated_clients
                  /\ clients' = clients ]_vars

\* A connection that had authenticated was refused a wrong password: it got
\* the auth_error and is still authenticated.
C23_Witness ==
    \E c \in Conns :
        /\ wire = [msg |-> AuthErrorMsg("Invalid password"), to |-> {c}, failed |-> {}]
        /\ ~lastAuth.ok /\ incorrect_password_attempts \in 1..(MAX_ATTEMPTS - 1)
        /\ c \in authenticated_clients /\ conn[c] = "open" /\ ~terminated

\* C24: a message that is no JSON, a query without a message, and an
\* exception raised while a query is processed are each answered with one
\* error reply to the requesting connection only; the connection stays open
\* and its handler goes on to the next message; the server terminates only
\* in the step of the authentication lockout.
C24_ErrorsAnsweredNotFatal ==
    [][/\ \A c \in Conns :
             /\ (SendWorks(c) /\ HandleBadJson(c))
                   => /\ wire' = [msg |-> ErrorMsg("Invalid JSON format"),
                                  to |-> {c}, failed |-> {}]
                      /\ conn'[c] = "open" /\ pc'[c] = "idle" /\ ~terminated'
             /\ (SendWorks(c) /\ QueryDone(c, TRUE))
                   => /\ wire' = [msg |-> ErrorMsg("exception"),
                                  to |-> {c}, failed |-> {}]
                      /\ conn'[c] = "open" /\ pc'[c] = "idle" /\ ~terminated'
             /\ \A token \in TokenInputs :
                   (/\ SendWorks(c) /\ pc[c] = "idle"
                    /\ token.kind = "string"
                    /\ verify_token(active_tokens, token.value, now)
                    /\ HandleQuery(c, token, FALSE))
                   => /\ wire' = [msg |-> ErrorMsg("No message provided"),
                                  to |-> {c}, failed |-> {}]
                      /\ conn'[c] = "open" /\ pc'[c] = "idle" /\ ~terminated'
       /\ (terminated' /\ ~terminated)
             => /\ incorrect_password_attempts' = incorrect_password_attempts + 1
                /\ incorrect_password_attempts' >= MAX_ATTEMPTS ]_vars

\* A query with a valid token and no message was answered with the error,
\* and the connection is open with its handler at the next message.
C24_Witness ==
    \E c \in Conns :
        /\ wire = [msg |-> ErrorMsg("No message provided"), to |-> {c}, failed |-> {}]
        /\ conn[c] = "open" /\ pc[c] = "idle" /\ ~terminated
        /\ active_tokens # Empty

\* C25: get_by_rnacentral_id consults the mirror first (an id the mirror
\* holds is found); on a mirror miss it reads the store and, if a row exists,
\* puts the id into the mirror before returning it; when no row exists it
\* returns None and changes neither the mirror nor the store.
C25_GetWarmsMirror ==
    [][\A id \in Ids :
          Get(id) =>
             /\ db' = db
             /\ IF id \in DOMAIN memory_cache
                THEN lastCall'.ret = "dict" /\ memory_cache' = memory_cache
                ELSE IF id \in DOMAIN db
                THEN lastCall'.ret = "dict" /\ id \in DOMAIN memory_cache'
                ELSE lastCall'.ret = "None" /\ memory_cache' = memory_cache ]_vars

\* C26: in every reachable state, the num_locations of every stored record
\* equals the length of its stored locations list, in the row and in the
\* dict a read returns.
C26_NumLocationsIsLength ==
    \A id \in DOMAIN db :
        /\ db[id].num_locations = Len(JsonLoads(db[id].locations))
        /\ get_by_rnacentral_id(db, id)[1].num_locations
              = Len(get_by_rnacentral_id(db, id)[1].locations)

\* An add has just committed; the store holds the id with three mapping
\* lines and an id with none.
C26_Witness ==
    /\ lastCall.op = "add_sequence" /\ lastCall.committed
    /\ DOMAIN db = {1, 2}
    /\ db[1].num_locations = 3 /\ Len(JsonLoads(db[1].locations)) = 3
    /\ db[2].num_locations = 0 /\ JsonLoads(db[2].locations) = <<>>

\* C27: created_at is set once, at the first insert of an id: a later
\* add_sequence or update_tool_data on an id that has a record leaves the
\* created_at of the record unchanged.
C27_CreatedAtSetOnce ==
    [][\A id \in DOMAIN db :
          id \in DOMAIN db' => db'[id].created_at = db[id].created_at ]_vars

\* C28: the locations stored for an id are the coordinates of all the lines
\* of the mapping file for that id, in file order, duplicates kept; an id
\* with no line gets the empty list and the count 0.
C28_LocationsInFileOrder ==
    \A id \in DOMAIN db :
        LET entries == SelectSeq(MappingFile, LAMBDA l : l.rid = id)
            stored == JsonLoads(db[id].locations)
        IN  /\ stored = [i \in 1..Len(entries) |-> entries[i].loc]
            /\ entries = <<>> => (stored = <<>> /\ db[id].num_locations = 0)

\* The id without a mapping line has just been added next to the id whose
\* second and third lines give the same coordinate.
C28_Witness ==
    /\ lastCall.op = "add_sequence" /\ lastCall.committed /\ lastCall.id = 2
    /\ DOMAIN db = {1, 2}
    /\ JsonLoads(db[2].locations) = <<>>
    /\ JsonLoads(db[1].locations) =
          <<"HE616747.1:617025-617106", "HE616747.2:617025-617106",
            "HE616747.2:617025-617106">>

\* C29: broadcasts go to the members of clients, and in every reachable
\* state every member of clients is in authenticated_clients.
C29_ClientsAreAuthenticated == clients \subseteq authenticated_clients

\* One connection is registered and authenticated while another, connected
\* and refused, is in neither set.
C29_Witness ==
    \E c, d \in Conns :
        /\ clients = {c} /\ authenticated_clients = {c} /\ conn[c] = "open"
        /\ d # c /\ conn[d] = "open" /\ ~lastAuth.ok /\ lastAuth.fails > 0
        /\ wire = [msg |-> AuthErrorMsg("Invalid password"), to |-> {d}, failed |-> {}]

\* C30: a session is destroyed on disconnect: once the handler of a
\* connection has finished, the connection is in neither clients nor
\* authenticated_clients.
C30_FinishedIsForgotten ==
    \A c \in Conns :
        conn[c] = "done" => (c \notin clients /\ c \notin authenticated_clients)

\* C31: an add_sequence on an id that has a record replaces the base fields
\* only: the values of trnascan_se_ss, sprinzl_pos and blocks_file set
\* earlier on the record are left unchanged.
C31_AddKeepsToolSlots ==
    [][\A id \in DOMAIN db, data \in Payloads :
          (add_sequence(id, data) /\ lastCall'.committed)
          => /\ db'[id].trnascan_se_ss = db[id].trnascan_se_ss
             /\ db'[id].sprinzl_pos = db[id].sprinzl_pos
             /\ db'[id].blocks_file = db[id].blocks_file ]_vars

\* C32: update_tool_data changes no record but the addressed one and leaves
\* the mirror alone; for sprinzl_pos and blocks_file it changes that slot
\* only; for trnascan_se_ss it changes its slot and, in the payload, the two
\* derived keys only.
C32_SlotUpdateFrame ==
    [][\A id \in Ids, tool \in allowed_tools : \A data \in ToolInputs(tool) :
          update_tool_data(id, tool, data)
          => /\ memory_cache' = memory_cache
             /\ DOMAIN db' = DOMAIN db
             /\ \A other \in DOMAIN db \ {id} : db'[other] = db[other]
             /\ id \in DOMAIN db =>
                   LET old == db[id]
                       new == db'[id]
                   IN  /\ tool = "sprinzl_pos"
                            => new = [old EXCEPT !.sprinzl_pos = new.sprinzl_pos]
                       /\ tool = "blocks_file"
                            => new = [old EXCEPT !.blocks_file = new.blocks_file]
                       /\ tool = "trnascan_se_ss"
                            => /\ new = [old EXCEPT
                                           !.trnascan_se_ss = new.trnascan_se_ss,
                                           !.sequence_data = new.sequence_data]
                               /\ JsonLoads(new.sequence_data).base
                                     = JsonLoads(old.sequence_data).base ]_vars

\* A structure update has just succeeded on one of two records: its slot and
\* the derived keys are set, the payload's own content is still there.
C32_Witness ==
    /\ lastCall.op = "update_tool_data" /\ lastCall.tool = "trnascan_se_ss"
    /\ lastCall.ret = "True" /\ lastCall.id = 1
    /\ DOMAIN db = {1, 2}
    /\ db[1].trnascan_se_ss # None
    /\ JsonLoads(db[1].sequence_data).secondary_structure # None
    /\ JsonLoads(db[1].sequence_data).base = "P1"
    /\ db[2].trnascan_se_ss = None

\* C33: clear empties the mirror and the table together: when a clear and an
\* add_sequence of another thread have run against each other and every call
\* has completed, the ids of the mirror are the ids of the table.
C33_ClearAtomicWithAdd ==
    threads = <<>> => DOMAIN memory_cache = DOMAIN db

\* C37: a structure update and an add_sequence on the same id, run on
\* different threads, are linearizable: the payload the structure update
\* writes back is the payload the row holds when it is written, with the
\* derived keys set, never a payload an add has replaced in between.
C37_StructureUpdateLinearizable ==
    [][\A i \in DOMAIN threads :
          (StructureUpdate(i) /\ lastCall'.committed)
          => JsonLoads(db'[threads[i].id].sequence_data).base
               = JsonLoads(db[threads[i].id].sequence_data).base ]_vars

\* C34: the failure counter is process-wide and reset only by restart: every
\* failed authentication, whichever connection makes it, adds one; a
\* successful authentication leaves it as it is; no step decreases it.
C34_CounterProcessWide ==
    [][/\ incorrect_password_attempts' >= incorrect_password_attempts
       /\ \A c \in Conns, password \in PasswordInputs :
             (pc[c] = "idle" /\ HandleAuth(c, password))
             => incorrect_password_attempts'
                  = IF password_matches(password, PASSWORD)
                    THEN incorrect_password_attempts
                    ELSE incorrect_password_attempts + 1 ]_vars

\* Two connections have each failed once, with a successful authentication
\* between the two failures, and the counter shows two.
C34_Witness ==
    /\ incorrect_password_attempts = 2
    /\ ~lastAuth.ok /\ lastAuth.run = 1 /\ lastAuth.fails = 2
    /\ \E c, d \in Conns :
          /\ c # d /\ c \in authenticated_clients /\ conn[c] = "open"
          /\ d \notin authenticated_clients
          /\ wire = [msg |-> AuthErrorMsg("Invalid password"), to |-> {d}, failed |-> {}]

\* C35: when all scheduled notifications have been processed, the record a
\* connected, registered session was last sent for an id is the record the
\* store holds for that id: no session is left with an older version.
C35_ViewsConverge ==
    tasks = <<>> =>
        \A c \in clients :
            conn[c] = "open" =>
                \A id \in DOMAIN view[c] \cap DOMAIN db :
                    view[c][id] = RowView(db[id])

\* C36: no update is lost around registration: for a session that has
\* registered and is connected with working sends, every id the store holds
\* is in the records the session was sent (the full state at registration
\* or a record-update after it), or its notification is still to be
\* processed.
C36_NoUpdateLostAroundRegistration ==
    \A c \in clients :
        (conn[c] = "open" /\ pc[c] = "idle") =>
            \A id \in DOMAIN db :
                \/ id \in DOMAIN view[c]
                \/ \E i \in DOMAIN tasks : tasks[i].kind = "update" /\ tasks[i].id = id

\* A registered, connected session holds both records of the store, the
\* last of them received as a record-update, and nothing is pending.
C36_Witness ==
    \E c \in clients :
        /\ conn[c] = "open" /\ pc[c] = "idle" /\ tasks = <<>>
        /\ DOMAIN db = {1, 2} /\ DOMAIN view[c] = {1, 2}
        /\ wire.msg.type = "db_update" /\ c \in wire.to
        /\ view[c][wire.msg.sequence_id] = RowView(db[wire.msg.sequence_id])

\* C38: a full-state broadcast after a clear completes for every session
\* that was registered when it started and stays registered, even when a
\* session registers or unregisters while it is suspended on a send: the
\* broadcast ends only when no such session is left to be sent the state.
C38_FullStateCompletes ==
    [][\A i \in DOMAIN tasks :
          (TaskStateSend(i) /\ Len(tasks') < Len(tasks))
          => tasks[i].data[1].left \cap clients = {} ]_vars

\* C39: while the query of one connection is executed by a worker thread the
\* loop is not suspended: any other connected connection can authenticate
\* and have its next message handled, and a pending notification can be
\* fetched and broadcast, before the query is answered; the connection
\* whose query is running has no other message handled until then.
C39_LoopNotSuspended ==
    \A c \in Conns :
        (pc[c] = "query" /\ Alive) =>
            /\ \A d \in Conns \ {c} :
                  (conn[d] = "open" /\ pc[d] = "idle")
                  => /\ ENABLED HandleAuth(d, PASSWORD)
                     /\ ENABLED HandleBadJson(d)
                     /\ \A token \in TokenInputs : ENABLED HandleQuery(d, token, TRUE)
            /\ \A i \in DOMAIN tasks :
                  ENABLED TaskFetch(i) \/ ENABLED TaskBroadcast(i)
            /\ ENABLED QueryDone(c, FALSE)
            /\ ~ENABLED HandleAuth(c, PASSWORD)
            /\ ~ENABLED HandleBadJson(c)
            /\ ~ENABLED Register(c)
            /\ ~ENABLED HandlerExit(c)
            /\ \A token \in TokenInputs : ~ENABLED HandleQuery(c, token, TRUE)

\* The query of one session is still running, a record it committed has been
\* broadcast to another session, which holds it, and that session has since
\* begun a query of its own.
C39_Witness ==
    \E c, d \in Conns :
        /\ c # d /\ pc[c] = "query" /\ pc[d] = "query"
        /\ wire.msg.type = "db_update" /\ d \in wire.to
        /\ wire.msg.sequence_id \in DOMAIN view[d]
        /\ lastCall.op = "add_sequence" /\ lastCall.committed

\* C40: when no shared secret is configured (WS_PASSWORD unset), no auth
\* message, whatever its password field holds, gets a token issued or its
\* connection marked authenticated.
C40_NoLoginWithoutSecret ==
    PASSWORD = None => /\ authenticated_clients = {}
                       /\ issued = Empty
                       /\ active_tokens = Empty

====
